---- MODULE Spec2Model ----
(***************************************************************************)
(* Bouncing-ball session of script.js (the active definitions, lines 203   *)
(* to 451): the Ball / MovingBall entities, the Game object with its       *)
(* spawn, clear, restart and resize handlers, and the frame loop.          *)
(*                                                                         *)
(* Numbers.  Positions, radii and speeds are JavaScript doubles counted in *)
(* CSS pixels.  The model counts them in units of 1/3200 pixel, which makes*)
(* every value the constructors can produce an integer: Math.random() is a *)
(* generator with hidden state; it is modelled as the full-period          *)
(* congruential generator on 0..15, whose output u stands for u/16.        *)
(***************************************************************************)
EXTENDS Integers, Sequences, FiniteSets, TLC

VARIABLES
    balls,            \* Game.balls: sequence of entity records
    isGameOver,       \* Game.isGameOver (undefined before the first game over, read as false)
    addBtnDisabled,   \* addBtn.disabled
    clearBtnDisabled, \* clearBtn.disabled
    gameOverHidden,   \* gameOverBox has class "hidden"
    ballCount,        \* number shown in #ballCount
    seed,             \* hidden state of Math.random
    cw, ch,           \* canvas.clientWidth / clientHeight (set by the layout)
    canvasW, canvasH, \* canvas.width / canvas.height (backing store, device pixels)
    timers,           \* number of pending resize timeouts
    rTOPending,       \* the timeout named by rTO is still pending
    frames,           \* number of pending requestAnimationFrame callbacks
    drawn,            \* circles drawn by the last frame, in drawing order
    op,               \* the operation that ran last
    pre,              \* entity count and phase before that operation, and the operation before it
    steps,            \* operations run so far
    pc                \* "ctor" inside the constructor, "run" afterwards, "unit" for a lone entity

vars == <<balls, isGameOver, addBtnDisabled, clearBtnDisabled, gameOverHidden,
          ballCount, seed, cw, ch, canvasW, canvasH, timers, rTOPending,
          frames, drawn, op, pre, steps, pc>>

----------------------------------------------------------------------------
(* Bounds of the exploration *)

MaxSteps == 4        \* operations explored after an initial state of the session
MaxUnitSteps == 3    \* operations explored on a lone entity
WarmUp == 79         \* add-button presses already made in the warmed-up initial states

Seeds == {0, 11}     \* initial states of Math.random

----------------------------------------------------------------------------
(* Numbers *)

Px(n) == n * 3200

Max(a, b) == IF a >= b THEN a ELSE b

Min(a, b) == IF a <= b THEN a ELSE b

Abs(a) == IF a < 0 THEN -a ELSE a

\* Math.random(): the value returned is s/16, the next state is NextRandom(s)
NextRandom(s) == (5 * s + 3) % 16

\* Math.random() * range, for a range that is a multiple of 16 units
Scale(s, range) == (range * s) \div 16

\* Math.random() < 0.5
Below(s) == s < 8

----------------------------------------------------------------------------
(* Ball and MovingBall *)

\* new Ball(canvas, x, y): hasPos is (x !== null); returns the ball and the
\* state of Math.random after the constructor's draws
Ball(s, hasPos, px, py, w, h) ==
    LET radius == Scale(s, Px(15)) + Px(10)
        s1 == NextRandom(s)
        x  == IF hasPos THEN px ELSE Scale(s1, w - radius * 2) + radius
        s2 == IF hasPos THEN s1 ELSE NextRandom(s1)
        y  == IF hasPos THEN py ELSE Scale(s2, h - radius * 2) + radius
        s3 == IF hasPos THEN s2 ELSE NextRandom(s2)
        s4 == NextRandom(s3)
        speedX == (Scale(s3, Px(2)) + Px(1)) * (IF Below(s4) THEN -1 ELSE 1)
        s5 == NextRandom(s4)
        s6 == NextRandom(s5)
        speedY == (Scale(s5, Px(2)) + Px(1)) * (IF Below(s6) THEN -1 ELSE 1)
        s7 == NextRandom(s6)
    IN  [ball |-> [kind |-> "Ball", radius |-> radius, x |-> x, y |-> y,
                   speedX |-> speedX, speedY |-> speedY,
                   color |-> Scale(s7, 360 * 16), ax |-> 0, ay |-> 0],
         seed |-> NextRandom(s7)]

\* new MovingBall(canvas, x, y)
MovingBall(s, hasPos, px, py, w, h) ==
    LET super == Ball(s, hasPos, px, py, w, h)
        s1 == super.seed
        s2 == NextRandom(s1)
    IN  [ball |-> [super.ball EXCEPT !.kind = "MovingBall",
                                     !.ax = (s1 - 8) * 4,
                                     !.ay = (s2 - 8) * 4],
         seed |-> NextRandom(s2)]

\* Ball.update with the bounds read from the canvas
UpdateFarOnly(b, w, h) ==
    LET x1 == b.x + b.speedX
        y1 == b.y + b.speedY
        hitX == x1 + b.radius > w
        hitY == y1 + b.radius > h
    IN  [b EXCEPT !.x = IF hitX THEN w - b.radius ELSE x1,
                  !.speedX = IF hitX THEN -b.speedX ELSE b.speedX,
                  !.y = IF hitY THEN h - b.radius ELSE y1,
                  !.speedY = IF hitY THEN -b.speedY ELSE b.speedY]

UpdateDamped(b, w, h) ==
    LET x1 == b.x + b.speedX
        y1 == b.y + b.speedY
        farX == x1 + b.radius > w
        nearX == ~farX /\ x1 - b.radius < 0
        farY == y1 + b.radius > h
        nearY == ~farY /\ y1 - b.radius < 0
    IN  [b EXCEPT !.x = IF farX THEN w - b.radius ELSE IF nearX THEN b.radius ELSE x1,
                  !.speedX = IF farX \/ nearX THEN -(b.speedX \div 2) ELSE b.speedX,
                  !.y = IF farY THEN h - b.radius ELSE IF nearY THEN b.radius ELSE y1,
                  !.speedY = IF farY \/ nearY THEN -(b.speedY \div 2) ELSE b.speedY]

UpdateOneAxis(b, w, h) ==
    LET x1 == b.x + b.speedX
        y1 == b.y + b.speedY
        farX == x1 + b.radius > w
        nearX == ~farX /\ x1 - b.radius < 0
        farY == ~farX /\ ~nearX /\ y1 + b.radius > h
        nearY == ~farX /\ ~nearX /\ ~farY /\ y1 - b.radius < 0
    IN  [b EXCEPT !.x = IF farX THEN w - b.radius ELSE IF nearX THEN b.radius ELSE x1,
                  !.speedX = IF farX \/ nearX THEN b.speedX * (-1) ELSE b.speedX,
                  !.y = IF farY THEN h - b.radius ELSE IF nearY THEN b.radius ELSE y1,
                  !.speedY = IF farY \/ nearY THEN b.speedY * (-1) ELSE b.speedY]

UpdateNearFirst(b, w, h) ==
    LET x1 == b.x + b.speedX
        y1 == b.y + b.speedY
        nearX == x1 - b.radius < 0
        farX == ~nearX /\ x1 + b.radius > w
        nearY == y1 - b.radius < 0
        farY == ~nearY /\ y1 + b.radius > h
    IN  [b EXCEPT !.x = IF farX THEN w - b.radius ELSE IF nearX THEN b.radius ELSE x1,
                  !.speedX = IF farX \/ nearX THEN b.speedX * (-1) ELSE b.speedX,
                  !.y = IF farY THEN h - b.radius ELSE IF nearY THEN b.radius ELSE y1,
                  !.speedY = IF farY \/ nearY THEN b.speedY * (-1) ELSE b.speedY]

Update(b, w, h) ==
    LET x1 == b.x + b.speedX
        y1 == b.y + b.speedY
        farX == x1 + b.radius > w
        nearX == ~farX /\ x1 - b.radius < 0
        farY == y1 + b.radius > h
        nearY == ~farY /\ y1 - b.radius < 0
    IN  [b EXCEPT !.x = IF farX THEN w - b.radius ELSE IF nearX THEN b.radius ELSE x1,
                  !.speedX = IF farX \/ nearX THEN b.speedX * (-1) ELSE b.speedX,
                  !.y = IF farY THEN h - b.radius ELSE IF nearY THEN b.radius ELSE y1,
                  !.speedY = IF farY \/ nearY THEN b.speedY * (-1) ELSE b.speedY]

\* MovingBall.update
MovingUpdate(b, w, h) ==
    Update([b EXCEPT !.speedX = @ + b.ax, !.speedY = @ + b.ay], w, h)

\* ball.update(), dispatched on the class of the ball
UpdateOf(b, w, h) ==
    IF b.kind = "MovingBall" THEN MovingUpdate(b, w, h) ELSE Update(b, w, h)

\* Ball.clampToBounds
ClampShifted(b, w, h) ==
    [b EXCEPT !.x = Max(b.radius, Min(b.x, w) - b.radius),
              !.y = Max(b.radius, Min(b.y, h) - b.radius)]

ClampMinOuter(b, w, h) ==
    [b EXCEPT !.x = Min(Max(b.radius, b.x), w - b.radius),
              !.y = Min(Max(b.radius, b.y), h - b.radius)]

ClampToBounds(b, w, h) ==
    [b EXCEPT !.x = Max(b.radius, Min(b.x, w - b.radius)),
              !.y = Max(b.radius, Min(b.y, h - b.radius))]

\* Ball.draw: the circle handed to the canvas
Draw(b) == [x |-> b.x, y |-> b.y, radius |-> b.radius, color |-> b.color]

----------------------------------------------------------------------------
(* Game *)

GameOverAt == 100    \* threshold of checkGameOver
InitialBalls == 20   \* balls added by the constructor
RestartBalls == 20   \* balls added by restartGame

SpawnOps == {"addRandomBall", "addBallOnClick", "addBallOnTouch"}

\* The Game object and the controls it owns, as one record
Game ==
    [balls |-> balls, seed |-> seed, isGameOver |-> isGameOver,
     addBtnDisabled |-> addBtnDisabled, clearBtnDisabled |-> clearBtnDisabled,
     gameOverHidden |-> gameOverHidden, ballCount |-> ballCount]

Install(g) ==
    /\ balls' = g.balls
    /\ seed' = g.seed
    /\ isGameOver' = g.isGameOver
    /\ addBtnDisabled' = g.addBtnDisabled
    /\ clearBtnDisabled' = g.clearBtnDisabled
    /\ gameOverHidden' = g.gameOverHidden
    /\ ballCount' = g.ballCount

\* the condition of checkGameOver
CheckLate(n, over) == n > GameOverAt /\ ~over

CheckGameOver(n, over) == n >= GameOverAt /\ ~over

\* disableButtons
DisableAddOnly(g) == [g EXCEPT !.addBtnDisabled = TRUE]

DisableButtons(g) == [g EXCEPT !.addBtnDisabled = TRUE, !.clearBtnDisabled = TRUE]

\* enableButtons
EnableButtons(g) == [g EXCEPT !.addBtnDisabled = FALSE, !.clearBtnDisabled = FALSE]

\* the effect of a checkGameOver call that returns true
EnterGameOver(g) ==
    [DisableButtons([g EXCEPT !.isGameOver = TRUE]) EXCEPT !.gameOverHidden = FALSE]

\* this.balls.push(ball)
PushFront(bs, b) == <<b>> \o bs

Push(bs, b) == Append(bs, b)

\* updateBallCount
UpdateBallCount(g) == [g EXCEPT !.ballCount = Len(g.balls)]

\* the tail shared by the three spawn handlers: clamp, push, update the counter
AdmitUnclamped(g, made, w, h) ==
    UpdateBallCount([g EXCEPT !.balls = Push(g.balls, made.ball),
                              !.seed = made.seed])

Admit(g, made, w, h) ==
    UpdateBallCount([g EXCEPT !.balls = Push(g.balls, ClampToBounds(made.ball, w, h)),
                              !.seed = made.seed])

\* addRandomBall
AddRandomBall(g, w, h) ==
    IF CheckGameOver(Len(g.balls), g.isGameOver)
    THEN EnterGameOver(g)
    ELSE LET s1 == NextRandom(g.seed)
             made == IF Below(g.seed) THEN Ball(s1, FALSE, 0, 0, w, h)
                                      ELSE MovingBall(s1, FALSE, 0, 0, w, h)
         IN  Admit(g, made, w, h)

\* addBallOnClick, with x = e.clientX - rect.left and y = e.clientY - rect.top
AddBallOnClick(g, x, y, w, h) ==
    IF CheckGameOver(Len(g.balls), g.isGameOver)
    THEN EnterGameOver(g)
    ELSE LET s1 == NextRandom(g.seed)
             made == IF Below(g.seed) THEN Ball(s1, TRUE, x, y, w, h)
                                      ELSE MovingBall(s1, TRUE, x, y, w, h)
         IN  Admit(g, made, w, h)

\* addBallOnTouch
AddBallOnTouch(g, x, y, w, h) ==
    IF CheckGameOver(Len(g.balls), g.isGameOver)
    THEN EnterGameOver(g)
    ELSE Admit(g, MovingBall(g.seed, TRUE, x, y, w, h), w, h)

\* for (let i = 0; i < n; i++) this.addRandomBall()
\* The n calls are made in order, the first n \div 2 of them and then the
\* rest on their result g1 (bound as a set element, so that it is evaluated once).
RECURSIVE AddRandomBalls(_, _, _, _)
AddRandomBalls(n, g, w, h) ==
    IF n = 0 THEN g
    ELSE IF n = 1 THEN AddRandomBall(g, w, h)
    ELSE CHOOSE r \in {AddRandomBalls(n - n \div 2, g1, w, h) :
                         g1 \in {AddRandomBalls(n \div 2, g, w, h)}} : TRUE

\* clearBalls
ClearAlways(g) == UpdateBallCount([g EXCEPT !.balls = <<>>])

ClearResets(g) ==
    UpdateBallCount([g EXCEPT !.balls = <<>>, !.isGameOver = FALSE])

ClearBalls(g) ==
    IF g.clearBtnDisabled THEN g ELSE UpdateBallCount([g EXCEPT !.balls = <<>>])

\* restartGame
RestartKeeping(g, w, h) ==
    LET cleared == [EnableButtons([g EXCEPT !.isGameOver = FALSE])
                        EXCEPT !.gameOverHidden = TRUE]
    IN  UpdateBallCount(AddRandomBalls(RestartBalls, cleared, w, h))

RestartGame(g, w, h) ==
    LET cleared == [EnableButtons([g EXCEPT !.isGameOver = FALSE, !.balls = <<>>])
                        EXCEPT !.gameOverHidden = TRUE]
    IN  UpdateBallCount(AddRandomBalls(RestartBalls, cleared, w, h))

\* the for loop of Game.loop: the balls after the frame
LoopAlways(bs, over, w, h) ==
    [i \in 1..Len(bs) |-> UpdateOf(bs[i], w, h)]

LoopBalls(bs, over, w, h) ==
    [i \in 1..Len(bs) |-> IF ~over THEN UpdateOf(bs[i], w, h) ELSE bs[i]]

\* the circles drawn by the frame
Frame(bs) == [i \in 1..Len(bs) |-> Draw(bs[i])]

\* Math.max(window.devicePixelRatio || 1, 1)
Dpr(d) == Max(IF d = 0 THEN 1 ELSE d, 1)

\* resizeCanvas: Math.floor(cssSize * dpr), in device pixels
BackingStore(css, d) == (css * Dpr(d)) \div Px(1)

\* clearTimeout(rTO); rTO = setTimeout(...): the pending timeouts afterwards,
\* from their number t before and whether the one named by rTO is pending
DebounceNoClear(t, pending) == t + 1

Debounce(t, pending) == (IF pending THEN t - 1 ELSE t) + 1

\* the pending animation-frame callbacks after a run of loop as one of the f
\* pending callbacks: the one that ran is gone, line 447 requests one
NextFramesStopOnOver(f, over) == IF over THEN f - 1 ELSE (f - 1) + 1

NextFrames(f, over) == (f - 1) + 1

\* the resize timeout's callback applied to the balls
ClampAllUpdate(bs, w, h) == [i \in 1..Len(bs) |-> UpdateOf(bs[i], w, h)]

ClampAll(bs, w, h) == [i \in 1..Len(bs) |-> ClampToBounds(bs[i], w, h)]

----------------------------------------------------------------------------
(* The session: initial states *)

StartSize == <<Px(400), Px(300)>>                     \* layout size at load
ResizeSizes == {<<Px(120), Px(90)>>, <<Px(40), Px(40)>>}  \* sizes a later layout gives
ClickPoints == {<<-Px(5), -Px(5)>>, <<Px(500), Px(150)>>} \* click offsets from the canvas corner
TouchPoints == {<<Px(200), Px(400)>>}                 \* touch offsets from the canvas corner
DevicePixelRatio == 2                                 \* window.devicePixelRatio

\* the Game object when the constructor reaches this.loop(): line 287, then
\* the seeding loop of line 317
ConstructedOffByOne(s, w, h) ==
    AddRandomBalls(InitialBalls + 1,
                   [balls |-> <<>>, seed |-> s, isGameOver |-> FALSE,
                    addBtnDisabled |-> FALSE, clearBtnDisabled |-> FALSE,
                    gameOverHidden |-> TRUE, ballCount |-> 0],
                   w, h)

Constructed(s, w, h) ==
    AddRandomBalls(InitialBalls,
                   [balls |-> <<>>, seed |-> s, isGameOver |-> FALSE,
                    addBtnDisabled |-> FALSE, clearBtnDisabled |-> FALSE,
                    gameOverHidden |-> TRUE, ballCount |-> 0],
                   w, h)

\* the Game object after the constructor (with its first frame) and n presses
\* of the add button
Warmed(s, n, w, h) ==
    CHOOSE r \in {AddRandomBalls(n, [c EXCEPT !.balls = LoopBalls(c.balls, c.isGameOver, w, h)], w, h) :
                     c \in {Constructed(s, w, h)}} : TRUE

InitCommon ==
    /\ cw = StartSize[1]
    /\ ch = StartSize[2]
    /\ canvasW = BackingStore(StartSize[1], DevicePixelRatio)
    /\ canvasH = BackingStore(StartSize[2], DevicePixelRatio)
    /\ timers = 0
    /\ rTOPending = FALSE
    /\ steps = 0

\* inside the constructor, about to make the first call of loop
InitCold ==
    /\ InitCommon
    /\ \E s \in Seeds :
         \E g \in {Constructed(s, StartSize[1], StartSize[2])} :
             /\ balls = g.balls
             /\ seed = g.seed
             /\ isGameOver = g.isGameOver
             /\ addBtnDisabled = g.addBtnDisabled
             /\ clearBtnDisabled = g.clearBtnDisabled
             /\ gameOverHidden = g.gameOverHidden
             /\ ballCount = g.ballCount
    /\ frames = 0
    /\ drawn = <<>>
    /\ op = "constructor"
    /\ pre = [len |-> 0, over |-> FALSE, op |-> "load"]
    /\ pc = "ctor"

\* the same session after its first frame and WarmUp presses of the add button
InitWarm ==
    /\ InitCommon
    /\ \E s \in Seeds :
         \E c \in {Constructed(s, StartSize[1], StartSize[2])},
            g \in {Warmed(s, WarmUp, StartSize[1], StartSize[2])} :
             /\ balls = g.balls
             /\ seed = g.seed
             /\ isGameOver = g.isGameOver
             /\ addBtnDisabled = g.addBtnDisabled
             /\ clearBtnDisabled = g.clearBtnDisabled
             /\ gameOverHidden = g.gameOverHidden
             /\ ballCount = g.ballCount
             /\ drawn = Frame(LoopBalls(c.balls, FALSE, StartSize[1], StartSize[2]))
             /\ pre = [len |-> Len(g.balls) - 1, over |-> FALSE, op |-> "addRandomBall"]
    /\ frames = 1
    /\ op = "addRandomBall"
    /\ pc = "run"

Init == InitCold \/ InitWarm

----------------------------------------------------------------------------
(* The session: one action per handler.  Every handler can run in every     *)
(* phase: the guards are the ones the handlers' code makes.                *)

Note(name) ==
    /\ op' = name
    /\ pre' = [len |-> Len(balls), over |-> isGameOver, op |-> op]

Running ==
    /\ pc = "run"
    /\ steps < MaxSteps
    /\ steps' = steps + 1

\* line 319: the constructor's own call of loop
ConstructorLoop ==
    /\ pc = "ctor"
    /\ pc' = "run"
    /\ balls' = LoopBalls(balls, isGameOver, cw, ch)
    /\ drawn' = Frame(balls')
    /\ frames' = frames + 1
    /\ Note("loop")
    /\ UNCHANGED <<isGameOver, addBtnDisabled, clearBtnDisabled, gameOverHidden,
                   ballCount, seed, cw, ch, canvasW, canvasH, timers, rTOPending, steps>>

\* Game.loop as the animation-frame callback
Loop ==
    /\ Running
    /\ frames > 0
    /\ balls' = LoopBalls(balls, isGameOver, cw, ch)
    /\ drawn' = Frame(balls')
    /\ frames' = NextFrames(frames, isGameOver)
    /\ Note("loop")
    /\ UNCHANGED <<isGameOver, addBtnDisabled, clearBtnDisabled, gameOverHidden,
                   ballCount, seed, cw, ch, canvasW, canvasH, timers, rTOPending, pc>>

Untouched == UNCHANGED <<cw, ch, canvasW, canvasH, timers, rTOPending, frames, drawn, pc>>

\* click on the add button
AddRandomBallAct ==
    /\ Running
    /\ \E g \in {AddRandomBall(Game, cw, ch)} : Install(g)
    /\ Note("addRandomBall")
    /\ Untouched

\* click on the canvas
AddBallOnClickAct ==
    /\ Running
    /\ \E p \in ClickPoints : \E g \in {AddBallOnClick(Game, p[1], p[2], cw, ch)} : Install(g)
    /\ Note("addBallOnClick")
    /\ Untouched

\* touchstart on the canvas
AddBallOnTouchAct ==
    /\ Running
    /\ \E p \in TouchPoints : \E g \in {AddBallOnTouch(Game, p[1], p[2], cw, ch)} : Install(g)
    /\ Note("addBallOnTouch")
    /\ Untouched

\* clear request
ClearBallsAct ==
    /\ Running
    /\ \E g \in {ClearBalls(Game)} : Install(g)
    /\ Note("clearBalls")
    /\ Untouched

\* restart request
RestartGameAct ==
    /\ Running
    /\ \E g \in {RestartGame(Game, cw, ch)} : Install(g)
    /\ Note("restartGame")
    /\ Untouched

\* the layout gives the canvas a new size and the window fires "resize":
\* lines 297 to 303 up to the setTimeout
ResizeEvent ==
    /\ Running
    /\ \E sz \in ResizeSizes \cup {StartSize} :
         /\ <<cw, ch>> # sz
         /\ cw' = sz[1]
         /\ ch' = sz[2]
    /\ timers' = Debounce(timers, rTOPending)
    /\ rTOPending' = TRUE
    /\ Note("resize")
    /\ UNCHANGED <<balls, isGameOver, addBtnDisabled, clearBtnDisabled, gameOverHidden,
                   ballCount, seed, canvasW, canvasH, frames, drawn, pc>>

\* the resize timeout fires: resizeCanvas, then clamp every ball
ResizeTimer ==
    /\ Running
    /\ timers > 0
    /\ timers' = timers - 1
    /\ rTOPending' = FALSE
    /\ canvasW' = BackingStore(cw, DevicePixelRatio)
    /\ canvasH' = BackingStore(ch, DevicePixelRatio)
    /\ balls' = ClampAll(balls, cw, ch)
    /\ Note("resizeTimer")
    /\ UNCHANGED <<isGameOver, addBtnDisabled, clearBtnDisabled, gameOverHidden,
                   ballCount, seed, cw, ch, frames, drawn, pc>>

Next ==
    \/ ConstructorLoop
    \/ Loop
    \/ AddBallOnClickAct
    \/ AddBallOnTouchAct
    \/ AddRandomBallAct
    \/ ClearBallsAct
    \/ RestartGameAct
    \/ ResizeEvent
    \/ ResizeTimer

Spec == Init /\ [][Next]_vars

----------------------------------------------------------------------------
(* A lone entity: update and clampToBounds on arbitrary positions,          *)
(* velocities and bounds                                                    *)

UnitKinds == {"Ball", "MovingBall"}
UnitRadii == {Px(10), Px(24)}
UnitXs == {-Px(30), Px(5), Px(200), Px(450)}
UnitYs == {Px(5), Px(295)}
UnitSpeedXs == {-Px(3), 0, Px(2)}
UnitSpeedYs == {-Px(3), Px(1)}
UnitSizes == {<<Px(400), Px(300)>>, <<Px(60), Px(50)>>, <<Px(30), Px(30)>>}

InitBall ==
    /\ \E k \in UnitKinds, r \in UnitRadii, x \in UnitXs, y \in UnitYs,
          sx \in UnitSpeedXs, sy \in UnitSpeedYs :
         balls = << [kind |-> k, radius |-> r, x |-> x, y |-> y,
                     speedX |-> sx, speedY |-> sy, color |-> 0,
                     ax |-> IF k = "MovingBall" THEN -32 ELSE 0,
                     ay |-> IF k = "MovingBall" THEN 28 ELSE 0] >>
    /\ \E sz \in UnitSizes : cw = sz[1] /\ ch = sz[2]
    /\ canvasW = BackingStore(cw, DevicePixelRatio)
    /\ canvasH = BackingStore(ch, DevicePixelRatio)
    /\ isGameOver = FALSE
    /\ addBtnDisabled = FALSE
    /\ clearBtnDisabled = FALSE
    /\ gameOverHidden = TRUE
    /\ ballCount = 1
    /\ seed = 0
    /\ timers = 0
    /\ rTOPending = FALSE
    /\ frames = 0
    /\ drawn = <<>>
    /\ op = "new"
    /\ pre = [len |-> 0, over |-> FALSE, op |-> "load", ball |-> balls[1]]
    /\ steps = 0
    /\ pc = "unit"

UnitStep ==
    /\ pc = "unit"
    /\ steps < MaxUnitSteps
    /\ steps' = steps + 1

\* as Note, with the entity as it was before the operation
UnitNote(name) ==
    /\ op' = name
    /\ pre' = [len |-> Len(balls), over |-> isGameOver, op |-> op, ball |-> balls[1]]

UnitFixed == UNCHANGED <<isGameOver, addBtnDisabled, clearBtnDisabled, gameOverHidden,
                         ballCount, seed, canvasW, canvasH, timers, rTOPending,
                         frames, drawn, pc>>

\* ball.update()
BallUpdate ==
    /\ UnitStep
    /\ balls' = << UpdateOf(balls[1], cw, ch) >>
    /\ UnitNote("update")
    /\ UNCHANGED <<cw, ch>>
    /\ UnitFixed

\* ball.clampToBounds()
BallClamp ==
    /\ UnitStep
    /\ balls' = << ClampToBounds(balls[1], cw, ch) >>
    /\ UnitNote("clampToBounds")
    /\ UNCHANGED <<cw, ch>>
    /\ UnitFixed

\* the layout gives the canvas another size
BallBounds ==
    /\ UnitStep
    /\ \E sz \in UnitSizes :
         /\ <<cw, ch>> # sz
         /\ cw' = sz[1]
         /\ ch' = sz[2]
    /\ UnitNote("bounds")
    /\ UNCHANGED balls
    /\ UnitFixed

NextBall == BallUpdate \/ BallClamp \/ BallBounds

SpecBall == InitBall /\ [][NextBall]_vars

----------------------------------------------------------------------------
(* Properties *)

InBounds(b, w, h) ==
    /\ b.radius <= b.x /\ b.x <= w - b.radius
    /\ b.radius <= b.y /\ b.y <= h - b.radius

\* a boundary branch of update fires on an axis: position and speed before
\* the update, the radius and the dimension read by the update
Fires(pos, speed, radius, dim) ==
    \/ pos + speed + radius > dim
    \/ pos + speed - radius < 0

\* C1: while the phase is Over every spawn attempt (random, click, touch)
\* leaves the entity collection unchanged.
C1_SpawnIgnoredInOver ==
    [][(isGameOver /\ op' \in SpawnOps) => balls' = balls]_vars

\* C2: in every reachable state the entity count is at most 100.
C2_CountAtMost100 == Len(balls) <= GameOverAt

\* C3 (as claimed): starting in Playing with 99 entities, immediately after
\* one more spawn the count is 100 and the phase is Over.
C3_OverOnHundredth ==
    (op \in SpawnOps /\ pre.len = GameOverAt - 1 /\ ~pre.over)
        => (Len(balls) = GameOverAt /\ isGameOver)

\* C3 (amended): the transition is evaluated only at the start of a spawn
\* attempt.  A spawn attempt made in Playing with fewer than 100 entities
\* appends one entity and leaves the phase Playing (so from 99 the count
\* becomes 100 with the phase still Playing); a spawn attempt made in Playing
\* with 100 entities adds nothing and sets the phase to Over; in Playing the
\* count never exceeds 100.
C3_OverOnNextAttempt ==
    /\ [](~isGameOver => Len(balls) <= GameOverAt)
    /\ [][(op' \in SpawnOps /\ ~isGameOver) =>
            IF Len(balls) < GameOverAt
            THEN ~isGameOver' /\ Len(balls') = Len(balls) + 1
            ELSE isGameOver' /\ balls' = balls]_vars

C3_Witness ==
    /\ op \in SpawnOps
    /\ ~pre.over /\ pre.len = GameOverAt
    /\ isGameOver /\ Len(balls) = GameOverAt

\* C4: restartGame, from any state, ends with exactly 20 entities, phase
\* Playing and the spawn and clear controls enabled.
C4_Restart ==
    op = "restartGame" =>
        /\ Len(balls) = 20
        /\ ~isGameOver
        /\ ~addBtnDisabled
        /\ ~clearBtnDisabled

C4_Witness ==
    /\ op = "restartGame"
    /\ pre.over /\ pre.len >= GameOverAt
    /\ Len(balls) = 20 /\ ~isGameOver

\* C5: after update, an entity of either kind is within [radius, dimension -
\* radius] on both axes whenever the bounds read by the update are at least
\* 2 * radius, whatever its position and velocity were and also when the
\* bounds changed since the previous operation.
C5_UpdateInBounds ==
    \A i \in 1..Len(balls) :
        (op = "update" /\ cw >= 2 * balls[i].radius /\ ch >= 2 * balls[i].radius)
            => InBounds(balls[i], cw, ch)

C5_Witness ==
    /\ op = "update" /\ pre.op = "bounds"
    /\ balls[1].kind = "MovingBall"
    /\ cw >= 2 * balls[1].radius /\ ch >= 2 * balls[1].radius
    /\ balls[1].x = cw - balls[1].radius
    /\ balls[1].y = balls[1].radius

\* C6: an admitted spawn appends exactly one entity and leaves the existing
\* ones and their order unchanged, clear sets the count to 0, restart sets it
\* to 20, frames and resize handling never change the count, and nothing else
\* lowers the count.
C6_CountChanges ==
    [][LET n == Len(balls)
           m == Len(balls')
       IN  /\ op' \in SpawnOps =>
                \/ balls' = balls
                \/ m = n + 1 /\ SubSeq(balls', 1, n) = balls
           /\ op' = "clearBalls" => (balls' = balls \/ m = 0)
           /\ op' = "restartGame" => m = 20
           /\ op' \in {"loop", "resize", "resizeTimer"} => m = n
           /\ m < n => op' \in {"clearBalls", "restartGame"}]_vars

C6_Witness ==
    /\ steps > 0
    /\ op = "addBallOnClick"
    /\ pre.len >= InitialBalls
    /\ Len(balls) = pre.len + 1

\* C7: update of a Simple entity keeps the magnitude of each velocity
\* component, and negates a component exactly when a boundary branch fired on
\* that axis.
C7_SimpleSpeed ==
    [][(op' = "update" /\ balls[1].kind = "Ball") =>
         LET b == balls[1]
             a == balls'[1]
         IN  /\ Abs(a.speedX) = Abs(b.speedX)
             /\ Abs(a.speedY) = Abs(b.speedY)
             /\ a.speedX = IF Fires(b.x, b.speedX, b.radius, cw) THEN -b.speedX ELSE b.speedX
             /\ a.speedY = IF Fires(b.y, b.speedY, b.radius, ch) THEN -b.speedY ELSE b.speedY]_vars

\* no Simple entity starts with speedX = -Px(2) or speedY = Px(3): both are
\* the result of a bounce
C7_Witness ==
    /\ op = "update"
    /\ balls[1].kind = "Ball"
    /\ balls[1].speedX = -Px(2) /\ balls[1].x = cw - balls[1].radius
    /\ balls[1].speedY = Px(3) /\ balls[1].y = balls[1].radius

\* C8: a frame run while the phase is Over leaves every entity unchanged,
\* draws every entity in insertion order and leaves a next frame scheduled.
C8_FrozenFrame ==
    [][(op' = "loop" /\ isGameOver) =>
         /\ balls' = balls
         /\ drawn' = Frame(balls)
         /\ frames' >= 1]_vars

C8_Witness ==
    /\ op = "loop"
    /\ isGameOver /\ pre.over
    /\ Len(balls) >= GameOverAt
    /\ Len(drawn) = Len(balls)

\* C9: a clear request made while the phase is Over leaves the entity
\* collection unchanged.
C9_ClearInOver ==
    [][(op' = "clearBalls" /\ isGameOver) => balls' = balls]_vars

C9_Witness ==
    /\ op = "clearBalls"
    /\ isGameOver /\ pre.over
    /\ Len(balls) >= GameOverAt

\* C10: clampToBounds applied to an entity that clampToBounds has just been
\* applied to, under the same bounds, changes nothing; also for bounds
\* smaller than 2 * radius.
C10_ClampIdempotent ==
    [][(op = "clampToBounds" /\ op' = "clampToBounds") => balls' = balls]_vars

C10_Witness ==
    /\ op = "clampToBounds" /\ pre.op = "clampToBounds"
    /\ cw < 2 * balls[1].radius
    /\ balls[1].x = balls[1].radius

\* the velocity update integrates with: the acceleration of a MovingBall is
\* added first
SpeedXUsed(b) == IF b.kind = "MovingBall" THEN b.speedX + b.ax ELSE b.speedX

SpeedYUsed(b) == IF b.kind = "MovingBall" THEN b.speedY + b.ay ELSE b.speedY

\* C11 (as claimed): when a dimension is smaller than twice the radius,
\* clampToBounds places the position on that axis at the midpoint of the
\* dimension.
C11_ClampMidpoint ==
    op = "clampToBounds" =>
        /\ cw < 2 * balls[1].radius => 2 * balls[1].x = cw
        /\ ch < 2 * balls[1].radius => 2 * balls[1].y = ch

\* C11 (amended): when a dimension is smaller than twice the radius,
\* clampToBounds places the position on that axis at radius (the near
\* tangent point), whatever the position was.
C11_ClampNearTangent ==
    op = "clampToBounds" =>
        /\ cw < 2 * balls[1].radius => balls[1].x = balls[1].radius
        /\ ch < 2 * balls[1].radius => balls[1].y = balls[1].radius

C11_Witness ==
    /\ op = "clampToBounds"
    /\ cw < 2 * balls[1].radius /\ ch < 2 * balls[1].radius
    /\ pre.ball.x > cw /\ pre.ball.y > ch
    /\ balls[1].x = balls[1].radius /\ balls[1].y = balls[1].radius

\* C13 (as claimed): an entity whose trailing edge is before zero on both
\* axes after integration is put at (radius, radius) by one update, with both
\* velocity components negated.
C13_BothAxesReflect ==
    [][(/\ op' = "update"
        /\ balls[1].x + SpeedXUsed(balls[1]) - balls[1].radius < 0
        /\ balls[1].y + SpeedYUsed(balls[1]) - balls[1].radius < 0) =>
         /\ balls'[1].x = balls[1].radius
         /\ balls'[1].y = balls[1].radius
         /\ balls'[1].speedX = -SpeedXUsed(balls[1])
         /\ balls'[1].speedY = -SpeedYUsed(balls[1])]_vars

\* C13 (amended): an entity whose trailing edge is before zero on both axes
\* after integration, and whose leading edge is not beyond the far bound on
\* either axis (always so when the bounds are at least 2 * radius), is put at
\* (radius, radius) by one update, with both velocity components negated.
C13_BothAxesReflectInside ==
    [][(/\ op' = "update"
        /\ balls[1].x + SpeedXUsed(balls[1]) - balls[1].radius < 0
        /\ balls[1].y + SpeedYUsed(balls[1]) - balls[1].radius < 0
        /\ balls[1].x + SpeedXUsed(balls[1]) + balls[1].radius <= cw
        /\ balls[1].y + SpeedYUsed(balls[1]) + balls[1].radius <= ch) =>
         /\ balls'[1].x = balls[1].radius
         /\ balls'[1].y = balls[1].radius
         /\ balls'[1].speedX = -SpeedXUsed(balls[1])
         /\ balls'[1].speedY = -SpeedYUsed(balls[1])]_vars

\* the scenario of the claim: (5,5), radius 10, velocity (-3,-3), 400 x 300
C13_Witness ==
    /\ op = "update"
    /\ cw = Px(400) /\ ch = Px(300)
    /\ pre.ball.kind = "Ball" /\ pre.ball.radius = Px(10)
    /\ pre.ball.x = Px(5) /\ pre.ball.y = Px(5)
    /\ pre.ball.speedX = -Px(3) /\ pre.ball.speedY = -Px(3)
    /\ balls[1].x = Px(10) /\ balls[1].y = Px(10)
    /\ balls[1].speedX = Px(3) /\ balls[1].speedY = Px(3)

\* C19: on each axis update tests the far bound first and takes at most one
\* branch: whenever the far-bound condition holds, and so also when the
\* near-bound condition holds with it, the position becomes dimension -
\* radius and the velocity on that axis is negated once.
C19_FarFirst ==
    [][op' = "update" =>
         LET b == balls[1]
             a == balls'[1]
         IN  /\ b.x + SpeedXUsed(b) + b.radius > cw =>
                  (a.x = cw - b.radius /\ a.speedX = -SpeedXUsed(b))
             /\ b.y + SpeedYUsed(b) + b.radius > ch =>
                  (a.y = ch - b.radius /\ a.speedY = -SpeedYUsed(b))]_vars

\* both conditions held on the x axis: 5 + 2 + 24 > 30 and 5 + 2 - 24 < 0
C19_Witness ==
    /\ op = "update"
    /\ cw = Px(30) /\ pre.ball.radius = Px(24) /\ pre.ball.kind = "Ball"
    /\ pre.ball.x = Px(5) /\ pre.ball.speedX = Px(2)
    /\ balls[1].x = Px(6) /\ balls[1].speedX = -Px(2)

\* C12: the entity a spawn handler appends is within [radius, dimension -
\* radius] on both axes of the bounds read by the handler, when these are at
\* least 2 * radius: for click and touch coordinates inside or outside the
\* surface and for randomized placement.
C12_SpawnedInBounds ==
    [][(op' \in SpawnOps /\ Len(balls') = Len(balls) + 1) =>
         LET b == balls'[Len(balls')]
         IN  (cw >= 2 * b.radius /\ ch >= 2 * b.radius) => InBounds(b, cw, ch)]_vars

\* a click left of and above the surface, admitted and put at (radius, radius)
C12_Witness ==
    /\ steps > 0
    /\ op = "addBallOnClick"
    /\ Len(balls) = pre.len + 1
    /\ cw >= 2 * balls[Len(balls)].radius /\ ch >= 2 * balls[Len(balls)].radius
    /\ balls[Len(balls)].x = balls[Len(balls)].radius
    /\ balls[Len(balls)].y = balls[Len(balls)].radius

\* C14: once the phase is Over, no frame, spawn attempt, clear request or
\* resize makes it Playing; restartGame does.
C14_OverUntilRestart ==
    [][/\ (isGameOver /\ op' # "restartGame") => isGameOver'
       /\ (isGameOver /\ op' = "restartGame") => ~isGameOver']_vars

C14_Witness ==
    /\ op = "addBallOnTouch"
    /\ pre.over /\ isGameOver
    /\ Len(balls) > GameOverAt

\* C15: inside the constructor, before the first frame runs, the collection
\* holds exactly 20 entities and the phase is Playing.
C15_Seeded ==
    pc = "ctor" => (Len(balls) = 20 /\ ~isGameOver)

C15_Witness ==
    /\ pc = "ctor"
    /\ op = "constructor"
    /\ frames = 0 /\ drawn = <<>>
    /\ Len(balls) = 20 /\ ballCount = 20

\* C16: the resize callback puts every entity within [radius, dimension -
\* radius] on both axes (for bounds of at least 2 * radius) and changes
\* nothing else: velocities and every other field of each entity, the count
\* and order, the phase and the controls are unchanged; in Over as in Playing.
C16_ResizeClampsOnly ==
    [][op' = "resizeTimer" =>
         /\ Len(balls') = Len(balls)
         /\ \A i \in 1..Len(balls) :
              /\ balls'[i] = [balls[i] EXCEPT !.x = balls'[i].x, !.y = balls'[i].y]
              /\ (cw >= 2 * balls[i].radius /\ ch >= 2 * balls[i].radius)
                    => InBounds(balls'[i], cw, ch)
         /\ isGameOver' = isGameOver
         /\ addBtnDisabled' = addBtnDisabled
         /\ clearBtnDisabled' = clearBtnDisabled
         /\ gameOverHidden' = gameOverHidden
         /\ ballCount' = ballCount]_vars

\* in Over, after the surface shrank to 120 x 90: some entity was moved to the
\* far tangent point
C16_Witness ==
    /\ op = "resizeTimer"
    /\ isGameOver /\ pre.over
    /\ cw = Px(120) /\ ch = Px(90)
    /\ \E i \in 1..Len(balls) : balls[i].x = cw - balls[i].radius
    /\ \A i \in 1..Len(balls) : InBounds(balls[i], cw, ch)

\* C17: at most one resize timeout is pending at any time, and it is the one
\* rTO names; every resize event leaves exactly one pending, so a burst of
\* events with no timeout firing in between is followed by one resize-and-
\* clamp pass; the pass leaves none pending and uses the size set by the last
\* event.
C17_Debounced ==
    /\ [](timers <= 1 /\ (rTOPending <=> timers = 1))
    /\ [][op' = "resize" => timers' = 1]_vars
    /\ [][op' = "resizeTimer" =>
            /\ timers' = 0
            /\ canvasW' = BackingStore(cw, DevicePixelRatio)
            /\ canvasH' = BackingStore(ch, DevicePixelRatio)
            /\ balls' = ClampAll(balls, cw, ch)]_vars

\* two resize events in a row: still one timeout
C17_Witness ==
    /\ op = "resize" /\ pre.op = "resize"
    /\ timers = 1 /\ rTOPending
    /\ canvasW # BackingStore(cw, DevicePixelRatio)

\* C18: after the constructor exactly one animation-frame callback is pending
\* in every state, in Over as in Playing: restart, clear, spawn, resize and
\* game over neither add one nor remove one, and a frame requests the next;
\* so the frame callback can run in every state (within the steps explored).
C18_OneFrameChain ==
    pc = "run" =>
        /\ frames = 1
        /\ steps < MaxSteps => ENABLED Loop

\* two frames in a row in Over
C18_Witness ==
    /\ op = "loop" /\ pre.op = "loop"
    /\ isGameOver /\ pre.over
    /\ frames = 1

\* C20: the add and clear buttons are disabled exactly when the phase is
\* Over; they become disabled only in the spawn attempt that makes the phase
\* Over and become enabled only in restartGame.
C20_DisabledIffOver ==
    /\ [](addBtnDisabled = isGameOver /\ clearBtnDisabled = isGameOver)
    /\ [][/\ (~clearBtnDisabled /\ clearBtnDisabled')
               => (op' \in SpawnOps /\ ~isGameOver /\ isGameOver')
          /\ (clearBtnDisabled /\ ~clearBtnDisabled') => op' = "restartGame"]_vars

C20_Witness ==
    /\ op = "resize"
    /\ isGameOver /\ addBtnDisabled /\ clearBtnDisabled /\ ~gameOverHidden

====
